---- MODULE Spec2Model ----
(***************************************************************************)
(* Model of src/examples/decimal-number-matcher.js: the class              *)
(* DecimalNumberMatcher, its constructor and its match(value) operation.   *)
(* A text value is a sequence of one-character strings.  The decimal.js    *)
(* constructor, precision(true) and decimalPlaces() are modelled by what   *)
(* they compute on plain decimal text (sign, digits, one optional point).  *)
(***************************************************************************)
EXTENDS Integers, Sequences, FiniteSets, TLC

VARIABLES params, value, result, returned, variants, parsed, threw, hist

vars == <<params, value, result, returned, variants, parsed, threw, hist>>

-----------------------------------------------------------------------------
(* Bounds of the model *)

MaxLen == 2

MaxDigits == 12

MaxParam == 3

MaxArity == 3

MaxLater == 2

-----------------------------------------------------------------------------
(* Program constants *)

DEFAULT_DIGIT_LIMIT == 11

DoubleNumberErrors ==
  [NOT_VALID |->
     [CODE |-> "doubleNumber.e001",
      MESSAGE |-> "The value is not a valid decimal number."],
   EXCEEDED_MAX_NUMBER_OF_DIGITS |->
     [CODE |-> "doubleNumber.e002",
      MESSAGE |-> "The value exceeded maximum number of digits."],
   EXCEEDED_MAX_NUMBER_OF_DECIMAL_PLACES |->
     [CODE |-> "doubleNumber.e003",
      MESSAGE |-> "The value exceeded maximum number of decimal places."]]

-----------------------------------------------------------------------------
(* JavaScript values *)

Null == [type |-> "null"]

Undefined == [type |-> "undefined"]

Str(chars) == [type |-> "string", chars |-> chars]

Num(n) == [type |-> "number", n |-> n]

\* value != null  (loose inequality: null and undefined both equal null)
NotNullish(v) == v.type \notin {"null", "undefined"}

\* a > b on JavaScript values: undefined converts to NaN and NaN > b is false
JsGreater(a, b) ==
  IF a.type = "number" /\ b.type = "number" THEN a.n > b.n ELSE FALSE

\* this.params[i] with a 0-based index; undefined when out of range
ParamAt(self, i) ==
  IF i + 1 \in DOMAIN self.params THEN Num(self.params[i + 1]) ELSE Undefined

-----------------------------------------------------------------------------
(* decimal.js on plain decimal text *)

Digits == {"0", "1", "2", "3", "4", "5", "6", "7", "8", "9"}

IsNotPoint(c) == c # "."

\* isDecimal = /^(\d+(\.\d*)?|\.\d+)(e[+-]?\d+)?$/i  without an exponent part
isDecimal(v) ==
  /\ \A i \in 1..Len(v) : v[i] \in Digits \cup {"."}
  /\ Cardinality({i \in 1..Len(v) : v[i] = "."}) <= 1
  /\ \E i \in 1..Len(v) : v[i] \in Digits

\* str.indexOf('.'), 0-based, -1 when absent
indexOfPoint(v) ==
  IF \E i \in 1..Len(v) : v[i] = "."
  THEN (CHOOSE i \in 1..Len(v) : v[i] = ".") - 1
  ELSE -1

\* for (i = 0; str.charCodeAt(i) === 48; i++);
leadingZeros(str) ==
  CHOOSE i \in 0..Len(str) :
    /\ \A j \in 1..i : str[j] = "0"
    /\ (i = Len(str) \/ str[i + 1] # "0")

\* for (len = str.length; str.charCodeAt(len - 1) === 48; --len);
trimmedLength(str) ==
  CHOOSE len \in 0..Len(str) :
    /\ \A j \in (len + 1)..Len(str) : str[j] = "0"
    /\ (len = 0 \/ str[len] # "0")

\* parseDecimal(x, str): coefficient digits d and decimal exponent e
parseDecimal(s, v) ==
  LET p   == indexOfPoint(v)
      str == SelectSeq(v, IsNotPoint)
      e0  == IF p < 0 THEN Len(str) ELSE p
      i   == leadingZeros(str)
      len == trimmedLength(str)
  IN IF len > i
     THEN [type |-> "decimal", s |-> s, e |-> e0 - i - 1,
           d |-> SubSeq(str, i + 1, len)]
     ELSE [type |-> "decimal", s |-> s, e |-> 0, d |-> <<"0">>]

\* new Decimal(value): a Decimal, or a thrown DecimalError
Decimal(v) ==
  IF v.type # "string"
  THEN [threw |-> TRUE, number |-> Null]
  ELSE LET neg  == Len(v.chars) > 0 /\ v.chars[1] = "-"
           body == IF neg THEN Tail(v.chars) ELSE v.chars
       IN IF isDecimal(body)
          THEN [threw |-> FALSE,
                number |-> parseDecimal(IF neg THEN -1 ELSE 1, body)]
          ELSE [threw |-> TRUE, number |-> Null]

\* getPrecision(x.d): number of significant digits of the coefficient
getPrecision(d) == Len(d)

\* Decimal.prototype.precision(z)
precision(x, z) ==
  LET k == getPrecision(x.d)
  IN IF z /\ x.e + 1 > k THEN x.e + 1 ELSE k

\* Decimal.prototype.decimalPlaces()
decimalPlaces(x) ==
  LET n == getPrecision(x.d) - x.e - 1
  IN IF n < 0 THEN 0 ELSE n

-----------------------------------------------------------------------------
(* ValidationResult (./validation-result) *)

ValidationResult == <<>>

addInvalidTypeError(errors, code, message) ==
  Append(errors, [code |-> code, message |-> message])

-----------------------------------------------------------------------------
(* DecimalNumberMatcher.  self is the instance ([params |-> ...]).  A frame  *)
(* st is the state of one running call: the accumulator (st.result), the    *)
(* instance's params as the call leaves them (st.params), whether an        *)
(* exception is propagating (st.threw), whether convertToDecimal ran        *)
(* (st.parsed) and which process...Input methods ran (st.variants).         *)

Frame(self, errors) ==
  [result |-> errors, params |-> self.params, threw |-> FALSE,
   parsed |-> FALSE, variants |-> {}]

\* mutant: >= in place of ===
validateParamsLength_AtLeast(self, length) == Len(self.params) >= length

validateParamsLength(self, length) == Len(self.params) = length

\* mutant: a missing number counts as exceeding the limit
isExceededMaxNumberOfDigits_NullExceeds(number, maxNumberOfDigits) ==
  [threw |-> FALSE,
   val |-> IF number = Null THEN TRUE
           ELSE JsGreater(Num(precision(number, TRUE)), maxNumberOfDigits)]

\* mutant: number.precision(true) without optional chaining
isExceededMaxNumberOfDigits_NoChaining(number, maxNumberOfDigits) ==
  IF number = Null THEN [threw |-> TRUE, val |-> FALSE]
  ELSE [threw |-> FALSE,
        val |-> JsGreater(Num(precision(number, TRUE)), maxNumberOfDigits)]

\* mutant: >= in place of >
isExceededMaxNumberOfDigits_AtLeast(number, maxNumberOfDigits) ==
  [threw |-> FALSE,
   val |-> number # Null /\ maxNumberOfDigits.type = "number"
             /\ precision(number, TRUE) >= maxNumberOfDigits.n]

\* number?.precision(true) > maxNumberOfDigits
isExceededMaxNumberOfDigits(number, maxNumberOfDigits) ==
  [threw |-> FALSE,
   val |-> JsGreater(IF number = Null THEN Undefined
                     ELSE Num(precision(number, TRUE)),
                     maxNumberOfDigits)]

\* mutant: compares with this.params[0]
isExceededMaxNumberOfDecimalPlaces_FirstParam(self, number) ==
  [threw |-> FALSE,
   val |-> JsGreater(IF number = Null THEN Undefined
                     ELSE Num(decimalPlaces(number)),
                     ParamAt(self, 0))]

\* number?.decimalPlaces() > this.params[1]
isExceededMaxNumberOfDecimalPlaces(self, number) ==
  [threw |-> FALSE,
   val |-> JsGreater(IF number = Null THEN Undefined
                     ELSE Num(decimalPlaces(number)),
                     ParamAt(self, 1))]

convertToDecimal(v, st) ==
  LET c == Decimal(v)
  IN IF c.threw
     THEN [number |-> Null,
           st |-> [st EXCEPT !.parsed = TRUE,
                             !.result = addInvalidTypeError(
                                 st.result,
                                 DoubleNumberErrors.NOT_VALID.CODE,
                                 DoubleNumberErrors.NOT_VALID.MESSAGE)]]
     ELSE [number |-> c.number, st |-> [st EXCEPT !.parsed = TRUE]]

validateMaxNumberOfDigits(number, maxNumberOfDigits, st) ==
  IF st.threw THEN st
  ELSE LET x == isExceededMaxNumberOfDigits(number, maxNumberOfDigits)
       IN IF x.threw THEN [st EXCEPT !.threw = TRUE]
          ELSE IF x.val
          THEN [st EXCEPT !.result = addInvalidTypeError(
                   st.result,
                   DoubleNumberErrors.EXCEEDED_MAX_NUMBER_OF_DIGITS.CODE,
                   DoubleNumberErrors.EXCEEDED_MAX_NUMBER_OF_DIGITS.MESSAGE)]
          ELSE st

validateMaxNumberOfDecimalPlaces(self, number, st) ==
  IF st.threw THEN st
  ELSE LET x == isExceededMaxNumberOfDecimalPlaces(self, number)
       IN IF x.threw THEN [st EXCEPT !.threw = TRUE]
          ELSE IF x.val
          THEN [st EXCEPT !.result = addInvalidTypeError(
                   st.result,
                   DoubleNumberErrors.EXCEEDED_MAX_NUMBER_OF_DECIMAL_PLACES.CODE,
                   DoubleNumberErrors.EXCEEDED_MAX_NUMBER_OF_DECIMAL_PLACES.MESSAGE)]
          ELSE st

\* return result;  (nothing is returned when an exception propagates)
Completion(st) ==
  [st |-> st,
   ret |-> IF st.threw THEN Undefined
           ELSE [type |-> "result", errors |-> st.result]]

\* mutant: stores the default limit in this.params
processNoParamInput_StoresDefault(self, v, st) ==
  LET c  == convertToDecimal(
              v, [st EXCEPT !.variants = st.variants \cup {"NoParam"},
                            !.params = <<DEFAULT_DIGIT_LIMIT>>])
      s1 == validateMaxNumberOfDigits(c.number, Num(DEFAULT_DIGIT_LIMIT), c.st)
  IN Completion(s1)

\* mutant: a limit one lower than DEFAULT_DIGIT_LIMIT
processNoParamInput_LowerLimit(self, v, st) ==
  LET c  == convertToDecimal(
              v, [st EXCEPT !.variants = st.variants \cup {"NoParam"}])
      s1 == validateMaxNumberOfDigits(
              c.number, Num(DEFAULT_DIGIT_LIMIT - 1), c.st)
  IN Completion(s1)

processNoParamInput(self, v, st) ==
  LET c  == convertToDecimal(
              v, [st EXCEPT !.variants = st.variants \cup {"NoParam"}])
      s1 == validateMaxNumberOfDigits(c.number, Num(DEFAULT_DIGIT_LIMIT), c.st)
  IN Completion(s1)

processOneParamInput(self, v, st) ==
  LET c  == convertToDecimal(
              v, [st EXCEPT !.variants = st.variants \cup {"OneParam"}])
      s1 == validateMaxNumberOfDigits(c.number, ParamAt(self, 0), c.st)
  IN Completion(s1)

\* mutant: the two checks in the opposite order
processTwoParamsInput_Swapped(self, v, st) ==
  LET c  == convertToDecimal(
              v, [st EXCEPT !.variants = st.variants \cup {"TwoParams"}])
      s1 == validateMaxNumberOfDecimalPlaces(self, c.number, c.st)
      s2 == validateMaxNumberOfDigits(c.number, ParamAt(self, 0), s1)
  IN Completion(s2)

processTwoParamsInput(self, v, st) ==
  LET c  == convertToDecimal(
              v, [st EXCEPT !.variants = st.variants \cup {"TwoParams"}])
      s1 == validateMaxNumberOfDigits(c.number, ParamAt(self, 0), c.st)
      s2 == validateMaxNumberOfDecimalPlaces(self, c.number, s1)
  IN Completion(s2)

\* mutant: the accumulator of the previous call is used again
newResult_Reused == result

\* let result = new ValidationResult();
newResult == ValidationResult

\* match(value): falls off the end, returning undefined, when the value is
\* null or undefined or when no arity test succeeds
match(self, v) ==
  LET st == Frame(self, newResult)
  IN IF NotNullish(v)
     THEN IF validateParamsLength(self, 0)
          THEN processNoParamInput(self, v, st)
          ELSE IF validateParamsLength(self, 1)
          THEN processOneParamInput(self, v, st)
          ELSE IF validateParamsLength(self, 2)
          THEN processTwoParamsInput(self, v, st)
          ELSE [st |-> st, ret |-> Undefined]
     ELSE [st |-> st, ret |-> Undefined]

\* constructor(...params) { this.params = params; }
constructor(args) == [params |-> args]

-----------------------------------------------------------------------------
(* Inputs *)

Alphabet == {"0", "1", ".", "a"}

TextUpTo(n) == UNION {[1..k -> Alphabet] : k \in 0..n}

\* n digits "1" with a decimal point after the first k of them (k = n: none)
DigitRun(n, k) ==
  [i \in 1..(IF k < n THEN n + 1 ELSE n) |->
     IF k < n /\ i = k + 1 THEN "." ELSE "1"]

\* m, a point, z zeros and a final "1": 0.001, 1.01, ...
SmallFraction(m, z) == <<m, ".">> \o [i \in 1..z |-> "0"] \o <<"1">>

ShapedText ==
  {DigitRun(n, k) : n \in (MaxDigits - 2)..MaxDigits, k \in {0, 1, MaxDigits}}
    \cup {DigitRun(n, k) : n \in 2..(MaxParam + 2), k \in 0..(MaxParam + 2)}
    \cup {SmallFraction(m, z) : m \in {"0", "1"}, z \in 0..(MaxParam + 1)}
    \cup {<<"1", "0", "0">>, <<"1", "0", "0", "0">>, <<"0", "1", ".", "1", "0">>,
          <<"-", "1", ".", "1">>, <<"-", "1", "1", ".", "1", "1">>,
          <<"1", ".", "1", ".", "1">>, <<"1", ",", "1">>, <<"1", "-", "1">>,
          <<"-">>, <<"-", "1">>, <<"-", "0">>, <<"-", ".", "1">>, <<"-", "a">>,
          <<"-", "-", "1">>, <<"1", "-">>, <<"-", ".">>}

Absent == {Null, Undefined}

Values == Absent \cup {Str(t) : t \in TextUpTo(MaxLen) \cup ShapedText}

HistValues ==
  Absent \cup {Str(t) : t \in TextUpTo(1) \cup {DigitRun(n, 1) : n \in 2..4}}

ParamValues == 0..MaxParam

Configs ==
  UNION {[1..k -> ParamValues] : k \in 0..2}
    \cup {[i \in 1..k |-> p] : k \in 3..MaxArity, p \in ParamValues}

NoCall == [type |-> "nocall"]

NoHist == [type |-> "none"]

-----------------------------------------------------------------------------
(* State machine: one matcher instance and the calls made on it.  value,    *)
(* result, returned, variants, parsed and threw describe the latest call;   *)
(* hist remembers one earlier call and counts the calls made since.         *)

Init ==
  /\ \E args \in Configs : params = constructor(args).params
  /\ value = NoCall
  /\ result = ValidationResult
  /\ returned = Undefined
  /\ variants = {}
  /\ parsed = FALSE
  /\ threw = FALSE
  /\ hist = NoHist

\* r is what the call leaves behind: its return value and its final frame
Match(v) ==
  \E r \in {match([params |-> params], v)} :
     /\ value' = v
     /\ result' = r.st.result
     /\ returned' = r.ret
     /\ variants' = r.st.variants
     /\ parsed' = r.st.parsed
     /\ threw' = r.st.threw
     /\ params' = r.st.params

Call == \E v \in Values : Match(v) /\ UNCHANGED hist

Next == Call

Spec == Init /\ [][Next]_vars

Remember ==
  \E v \in HistValues :
    /\ Match(v)
    /\ hist' = [type |-> "call", value |-> v, returned |-> returned',
                later |-> 0]

Repeat ==
  /\ hist.type = "call"
  /\ hist.later < MaxLater
  /\ \E v \in HistValues :
       /\ Match(v)
       /\ hist' = [hist EXCEPT !.later = hist.later + 1]

NextHist == Remember \/ Repeat

SpecHist == Init /\ [][NextHist]_vars

-----------------------------------------------------------------------------
(* Vocabulary of the properties *)

NOT_VALID == DoubleNumberErrors.NOT_VALID.CODE

EXCEEDED_MAX_NUMBER_OF_DIGITS ==
  DoubleNumberErrors.EXCEEDED_MAX_NUMBER_OF_DIGITS.CODE

EXCEEDED_MAX_NUMBER_OF_DECIMAL_PLACES ==
  DoubleNumberErrors.EXCEEDED_MAX_NUMBER_OF_DECIMAL_PLACES.CODE

CodesOf(errors) == [i \in 1..Len(errors) |-> errors[i].code]

CountOf(errors, code) ==
  Cardinality({i \in 1..Len(errors) : errors[i].code = code})

Called == value.type # "nocall"

Arity == Len(params)

IsOutcome(r) == r.type = "result"

IsText == value.type = "string"

Rejected == IsText /\ Decimal(value).threw

Accepted == IsText /\ ~Decimal(value).threw

TotalDigits == precision(Decimal(value).number, TRUE)

FractionDigits == decimalPlaces(Decimal(value).number)

VariantOf(n) ==
  IF n = 0 THEN "NoParam" ELSE IF n = 1 THEN "OneParam" ELSE "TwoParams"

-----------------------------------------------------------------------------
(* C1: for every configuration of arity 0, 1 or 2, match on an absent value *)
(* (null or undefined) returns an outcome object holding zero violations.   *)
(* The code returns undefined instead: this statement is violated.          *)
C1_AbsentYieldsEmptyOutcome ==
  (Called /\ value \in Absent /\ Arity <= 2)
    => (IsOutcome(returned) /\ returned.errors = <<>>)

(* C2: for every non-absent value the parser rejects and every arity 0, 1   *)
(* or 2, the outcome is exactly one violation, NOT_VALID, and no            *)
(* digit-count violation accompanies it.                                    *)
C2_RejectedYieldsOnlyNotValid ==
  (Called /\ Rejected /\ Arity <= 2)
    => /\ IsOutcome(returned)
       /\ CodesOf(returned.errors) = <<NOT_VALID>>
       /\ CountOf(returned.errors, EXCEEDED_MAX_NUMBER_OF_DIGITS) = 0
       /\ CountOf(returned.errors, EXCEEDED_MAX_NUMBER_OF_DECIMAL_PLACES) = 0

C2_Witness ==
  /\ Called /\ Rejected /\ Arity = 2
  /\ Len(value.chars) > 0
  /\ params = <<0, 0>>
  /\ IsOutcome(returned) /\ Len(returned.errors) = 1

(* C3: with two parameters (maxTotal, maxFractional) and a parsed value,    *)
(* the outcome holds EXCEEDED_MAX_NUMBER_OF_DIGITS exactly once iff the     *)
(* total digit count exceeds maxTotal, EXCEEDED_MAX_NUMBER_OF_DECIMAL_PLACES*)
(* exactly once iff the fractional digit count exceeds maxFractional, and   *)
(* nothing else; and a matcher with maxTotal >= 1 has inputs producing each *)
(* of the four combinations none / first / second / both.                   *)
C3_Combination(self, digits, places) ==
  \E v \in Values :
    /\ v.type = "string" /\ ~Decimal(v).threw
    /\ LET r == match(self, v).ret
       IN /\ IsOutcome(r)
          /\ (CountOf(r.errors, EXCEEDED_MAX_NUMBER_OF_DIGITS) = 1) = digits
          /\ (CountOf(r.errors, EXCEEDED_MAX_NUMBER_OF_DECIMAL_PLACES) = 1)
               = places
          /\ Len(r.errors) = (IF digits THEN 1 ELSE 0) + (IF places THEN 1 ELSE 0)

C3_TwoParamsChecksIndependent ==
  /\ (Called /\ Accepted /\ Arity = 2)
       => /\ IsOutcome(returned)
          /\ CountOf(returned.errors, EXCEEDED_MAX_NUMBER_OF_DIGITS)
               = (IF TotalDigits > params[1] THEN 1 ELSE 0)
          /\ CountOf(returned.errors, EXCEEDED_MAX_NUMBER_OF_DECIMAL_PLACES)
               = (IF FractionDigits > params[2] THEN 1 ELSE 0)
          /\ CountOf(returned.errors, NOT_VALID) = 0
          /\ Len(returned.errors)
               = (IF TotalDigits > params[1] THEN 1 ELSE 0)
                   + (IF FractionDigits > params[2] THEN 1 ELSE 0)
  /\ (~Called /\ Arity = 2 /\ params[1] >= 1)
       => \A digits, places \in BOOLEAN :
            C3_Combination([params |-> params], digits, places)

C3_Witness ==
  /\ Called /\ Accepted /\ Arity = 2
  /\ TotalDigits <= params[1]
  /\ FractionDigits > params[2]
  /\ params[1] # params[2]
  /\ Len(returned.errors) = 1

(* C4: with one parameter (max) and a parsed value, the outcome is exactly  *)
(* one EXCEEDED_MAX_NUMBER_OF_DIGITS when the total digit count exceeds max *)
(* and empty otherwise (equality included); the decimal-places violation is *)
(* never reported.                                                          *)
C4_OneParamTotalDigitsOnly ==
  (Called /\ Accepted /\ Arity = 1)
    => /\ IsOutcome(returned)
       /\ CodesOf(returned.errors)
            = (IF TotalDigits > params[1]
               THEN <<EXCEEDED_MAX_NUMBER_OF_DIGITS>> ELSE <<>>)
       /\ CountOf(returned.errors, EXCEEDED_MAX_NUMBER_OF_DECIMAL_PLACES) = 0

C4_Witness ==
  /\ Called /\ Accepted /\ Arity = 1
  /\ TotalDigits = params[1]
  /\ FractionDigits > params[1]
  /\ IsOutcome(returned) /\ returned.errors = <<>>

(* C5: for every non-absent value, a matcher with no parameter returns the  *)
(* same outcome as a matcher with the single parameter 11; a value of 11    *)
(* total digits is valid, one of 12 yields exactly one                      *)
(* EXCEEDED_MAX_NUMBER_OF_DIGITS.                                           *)
C5_NoParamIsOneParamEleven ==
  (Called /\ IsText /\ Arity = 0)
    => /\ returned = match(constructor(<<11>>), value).ret
       /\ (Accepted /\ TotalDigits = 11) => returned.errors = <<>>
       /\ (Accepted /\ TotalDigits = 12)
            => CodesOf(returned.errors) = <<EXCEEDED_MAX_NUMBER_OF_DIGITS>>

C5_Witness ==
  /\ Called /\ Accepted /\ Arity = 0
  /\ TotalDigits = 12
  /\ IsOutcome(returned) /\ Len(returned.errors) = 1

(* C6: for every value (absent, malformed, well-formed) and every arity 0,  *)
(* 1 or 2, match ends without raising; a parse failure becomes a NOT_VALID  *)
(* violation and the digit-count queries on the missing number do not raise.*)
C6_MatchNeverRaises ==
  (Called /\ Arity <= 2)
    => /\ ~threw
       /\ Rejected => (/\ IsOutcome(returned)
                       /\ CountOf(returned.errors, NOT_VALID) = 1)

C6_Witness ==
  /\ Called /\ Rejected /\ Arity = 2 /\ parsed
  /\ ~threw
  /\ IsOutcome(returned)

(* C7: after any earlier calls on the same instance, a call with a given    *)
(* value returns an outcome identical to the one an earlier call with that  *)
(* value returned: violations of earlier calls never show up later.         *)
C7_SameValueSameOutcome ==
  (hist.type = "call" /\ hist.later >= 1 /\ value = hist.value)
    => returned = hist.returned

C7_Witness ==
  /\ hist.type = "call" /\ hist.later = MaxLater
  /\ value = hist.value
  /\ IsOutcome(returned) /\ Len(returned.errors) = 2

(* C8: every match call leaves the stored configuration params as it was:  *)
(* same length, same elements.                                              *)
C8_ParamsUnchanged == [][params' = params]_vars

C8_Witness ==
  /\ Called /\ Arity = 0
  /\ IsOutcome(returned) /\ Len(returned.errors) = 1

(* C9 as stated: exactly one variant runs whenever the length is 0, 1 or 2; *)
(* with length 3 or more no variant runs, the value is not parsed, nothing  *)
(* is appended and match returns undefined.  Violated by an absent value.   *)
C9_VariantByLengthAlone ==
  Called
    => /\ Arity <= 2 => variants = {VariantOf(Arity)}
       /\ Arity >= 3 => (/\ variants = {} /\ ~parsed
                         /\ result = <<>> /\ returned = Undefined)

(* C9 amended: for a non-absent value exactly one variant runs, the one of  *)
(* the length, when the length is 0, 1 or 2; for an absent value no variant *)
(* runs; with length 3 or more no variant runs, the value is not parsed,    *)
(* nothing is appended and match returns undefined, for every value.        *)
C9_VariantByLengthWhenPresent ==
  Called
    => /\ (Arity <= 2 /\ IsText) => variants = {VariantOf(Arity)}
       /\ (Arity <= 2 /\ value \in Absent) => variants = {}
       /\ Arity >= 3 => (/\ variants = {} /\ ~parsed
                         /\ result = <<>> /\ returned = Undefined)

C9_Witness ==
  /\ Called /\ Arity >= 3
  /\ Rejected
  /\ returned = Undefined /\ variants = {}

(* C10: every outcome match returns is one of [], [NOT_VALID], [DIGITS],    *)
(* [DECIMAL_PLACES], [DIGITS, DECIMAL_PLACES], in that order, each code at  *)
(* most once; its length is at most 1 for arity 0 and 1, at most 2 for 2.   *)
C10_OutcomeShape ==
  (Called /\ IsOutcome(returned))
    => /\ CodesOf(returned.errors) \in
            {<<>>, <<NOT_VALID>>, <<EXCEEDED_MAX_NUMBER_OF_DIGITS>>,
             <<EXCEEDED_MAX_NUMBER_OF_DECIMAL_PLACES>>,
             <<EXCEEDED_MAX_NUMBER_OF_DIGITS,
               EXCEEDED_MAX_NUMBER_OF_DECIMAL_PLACES>>}
       /\ Arity <= 1 => Len(returned.errors) <= 1
       /\ Arity = 2 => Len(returned.errors) <= 2

C10_Witness ==
  /\ Called /\ Arity = 2
  /\ IsOutcome(returned)
  /\ CodesOf(returned.errors)
       = <<EXCEEDED_MAX_NUMBER_OF_DIGITS, EXCEEDED_MAX_NUMBER_OF_DECIMAL_PLACES>>

====
